---- MODULE Spec2Model ----
(***************************************************************************)
(* NC Lottery backend (src/server.js): the aggregation pipeline.           *)
(*                                                                         *)
(* Texts are sequences of one-character strings, so that the regular       *)
(* expressions of the field parsers are modelled by what they match.       *)
(* Numbers are exact rationals [n, d] in lowest terms; d = 0 holds the     *)
(* non-finite values of JS: [0, 0] is NaN, [1, 0] and [-1, 0] are          *)
(* +Infinity and -Infinity.  A timestamp (new Date().toISOString()) is     *)
(* abstracted to the id of the pipeline run that reads the clock; 0 stamps *)
(* a snapshot written by an earlier process.                               *)
(***************************************************************************)
EXTENDS Integers, Sequences, FiniteSets, TLC

VARIABLES
    lotteryData,   \* the process-wide snapshot (server.js:21)
    cacheFile,     \* content of lottery_cache.json on disk
    startup,       \* position of startServer/loadCachedData
    runs,          \* the calls of updateLotteryData, by run id
    resp           \* the HTTP response sent by the last step, if it sent one

vars == <<lotteryData, cacheFile, startup, runs, resp>>

----------------------------------------------------------------------------
(* Numbers *)

RECURSIVE Gcd(_, _)
Gcd(a, b) == IF b = 0 THEN a ELSE Gcd(b, a % b)

Abs(x) == IF x < 0 THEN -x ELSE x

NaN == [n |-> 0, d |-> 0]

IsNaN(x) == x.d = 0 /\ x.n = 0

IsFinite(x) == x.d # 0

\* the rational n/d in lowest terms, d > 0; n/0 is NaN or an infinity
Rat(n, d) ==
    IF d = 0 THEN [n |-> IF n > 0 THEN 1 ELSE IF n < 0 THEN -1 ELSE 0, d |-> 0]
    ELSE LET g == Gcd(Abs(n), Abs(d))
             s == IF d < 0 THEN -1 ELSE 1
         IN  [n |-> s * (n \div g), d |-> s * (d \div g)]

Num(k) == [n |-> k, d |-> 1]

RAdd(a, b) == IF IsNaN(a) \/ IsNaN(b) THEN NaN ELSE Rat(a.n * b.d + b.n * a.d, a.d * b.d)
RSub(a, b) == IF IsNaN(a) \/ IsNaN(b) THEN NaN ELSE Rat(a.n * b.d - b.n * a.d, a.d * b.d)
RMul(a, b) == IF IsNaN(a) \/ IsNaN(b) THEN NaN ELSE Rat(a.n * b.n, a.d * b.d)
\* JS division of finite numbers: x/0 is an infinity, 0/0 is NaN
RDiv(a, b) == IF IsNaN(a) \/ IsNaN(b) THEN NaN ELSE Rat(a.n * b.d, a.d * b.n)
\* JS <, >: false when either side is NaN
RLt(a, b) ==
    /\ ~IsNaN(a)
    /\ ~IsNaN(b)
    /\ IF a.d = 0 /\ b.d = 0 THEN a.n < b.n ELSE a.n * b.d < b.n * a.d
RGt(a, b) == RLt(b, a)
\* Math.max(0, x): NaN when x is NaN
RMax0(x) == IF IsNaN(x) THEN NaN ELSE IF x.n < 0 THEN Num(0) ELSE x
\* JS truthiness of a number: 0 and NaN are falsy
Truthy(x) == ~IsNaN(x) /\ x.n # 0

----------------------------------------------------------------------------
(* Texts *)

Digit == {"0", "1", "2", "3", "4", "5", "6", "7", "8", "9"}

DigitVal(c) ==
    CASE c = "0" -> 0 [] c = "1" -> 1 [] c = "2" -> 2 [] c = "3" -> 3
      [] c = "4" -> 4 [] c = "5" -> 5 [] c = "6" -> 6 [] c = "7" -> 7
      [] c = "8" -> 8 [] c = "9" -> 9

\* \s of the regular expressions, as far as the inputs use it
Space == {" ", "\t"}

At(s, i) == IF i >= 1 /\ i <= Len(s) THEN s[i] ELSE "EOF"

\* the end of the longest run of characters of set cs that starts at i
\* (i - 1 when the run is empty)
RECURSIVE RunEnd(_, _, _)
RunEnd(s, i, cs) == IF At(s, i) \in cs THEN RunEnd(s, i + 1, cs) ELSE i - 1

Slice(s, i, j) == IF j < i THEN <<>> ELSE SubSeq(s, i, j)

\* String.prototype.replace(/[...]/g, ''): s without the characters of cs
RECURSIVE Strip(_, _)
Strip(s, cs) ==
    IF s = <<>> THEN <<>>
    ELSE IF Head(s) \in cs THEN Strip(Tail(s), cs)
         ELSE <<Head(s)>> \o Strip(Tail(s), cs)

RECURSIVE DigitsVal(_, _)
DigitsVal(s, acc) ==
    IF s = <<>> THEN acc ELSE DigitsVal(Tail(s), 10 * acc + DigitVal(Head(s)))

RECURSIVE Pow10(_)
Pow10(k) == IF k = 0 THEN 1 ELSE 10 * Pow10(k - 1)

\* parseFloat on an unsigned text: digits* [ "." digits* ] as a prefix, NaN
\* when that prefix holds no digit
parseFloat(s) ==
    LET ie == RunEnd(s, 1, Digit)
        fe == IF At(s, ie + 1) = "." THEN RunEnd(s, ie + 2, Digit) ELSE ie
        ip == Slice(s, 1, ie)
        fp == IF fe > ie THEN Slice(s, ie + 2, fe) ELSE <<>>
    IN  IF ip = <<>> /\ fp = <<>> THEN NaN
        ELSE Rat(DigitsVal(ip \o fp, 0), Pow10(Len(fp)))

\* parseInt(text) on a trimmed text: an optional sign, then digits; NaN
\* when no digit follows
parseInt(s) ==
    LET neg == At(s, 1) = "-"
        b   == IF At(s, 1) \in {"-", "+"} THEN 2 ELSE 1
        e   == RunEnd(s, b, Digit)
    IN  IF e < b THEN NaN
        ELSE Num((IF neg THEN -1 ELSE 1) * DigitsVal(Slice(s, b, e), 0))

\* the least index >= i whose character is in cs, 0 when there is none
RECURSIVE FirstIn(_, _, _)
FirstIn(s, i, cs) ==
    IF i > Len(s) THEN 0
    ELSE IF s[i] \in cs THEN i ELSE FirstIn(s, i + 1, cs)

----------------------------------------------------------------------------
(* Field parsers *)

\* the capture group of /\$?(\d+(?:\.\d{2})?)/ in s: the first run of digits
\* and, when exactly there, a point and two digits; <<>> when s has no digit
MoneyCapture(s) ==
    LET p == FirstIn(s, 1, Digit)
        e == RunEnd(s, p, Digit)
        f == IF At(s, e + 1) = "." /\ At(s, e + 2) \in Digit /\ At(s, e + 3) \in Digit
             THEN e + 3 ELSE e
    IN  IF p = 0 THEN <<>> ELSE Slice(s, p, f)

parsePrice(priceStr) ==
    LET m == MoneyCapture(priceStr)
    IN  IF m # <<>> THEN parseFloat(m) ELSE Num(0)

parsePrizeAmount(prizeStr) ==
    IF prizeStr = <<>> THEN Num(0)
    ELSE LET cleanStr == Strip(prizeStr, {"$", ","})
             m == MoneyCapture(cleanStr)
         IN  IF m # <<>> THEN parseFloat(m) ELSE Num(0)

\* whether /1\s*in\s*[\d,]/i matches s at index i, and where its number starts
OddsNumberAt(s, i) ==
    LET j == RunEnd(s, i + 1, Space) + 1
        k == RunEnd(s, j + 2, Space) + 1
    IN  IF /\ At(s, i) = "1"
           /\ At(s, j) \in {"i", "I"}
           /\ At(s, j + 1) \in {"n", "N"}
           /\ At(s, k) \in Digit \cup {","}
        THEN k ELSE 0

RECURSIVE OddsNumberFrom(_, _)
OddsNumberFrom(s, i) ==
    IF i > Len(s) THEN 0
    ELSE IF OddsNumberAt(s, i) # 0 THEN OddsNumberAt(s, i)
         ELSE OddsNumberFrom(s, i + 1)

\* match[1] of /1\s*in\s*([\d,]+(?:\.\d+)?)/i on s, <<>> when there is no match
OddsCapture(s) ==
    LET k == OddsNumberFrom(s, 1)
        e == RunEnd(s, k, Digit \cup {","})
        f == IF At(s, e + 1) = "." /\ At(s, e + 2) \in Digit
             THEN RunEnd(s, e + 2, Digit) ELSE e
    IN  IF k = 0 THEN <<>> ELSE Slice(s, k, f)

Null == <<"null">>

OneIn == <<"1", " ", "i", "n", " ">>

parseOdds(oddsStr) ==
    IF oddsStr = <<>> THEN Null
    ELSE LET m == OddsCapture(oddsStr)
         IN  IF m # <<>> THEN OneIn \o m ELSE oddsStr

\* a || b on texts: the empty text and null are falsy
OrText(a, b) == IF a = <<>> \/ a = Null THEN b ELSE a

\* a || b on numbers
OrNum(a, b) == IF Truthy(a) THEN a ELSE b

----------------------------------------------------------------------------
(* Source adapters.  The answer to a fetch is a record [st, data]: st is   *)
(* "fail" when axios.get rejected, and "ok" with, as data, what the markup *)
(* query engine extracts from the page: texts, already trimmed.            *)

Failed == [st |-> "fail", data |-> <<>>]

Ok(data) == [st |-> "ok", data |-> data]

Half == Rat(1, 2)

DefaultOdds == <<"1", " ", "i", "n", " ", "4", ".", "0">>

\* the game of one .game-tile element (server.js:85-97)
TileGame(t, index, now) ==
    [id |-> <<"scratch", index + 1>>,
     name |-> t.name,
     type |-> "scratch-off",
     price |-> parsePrice(t.price),
     overallOdds |-> OrText(parseOdds(t.odds), DefaultOdds),
     topPrize |-> OrNum(parsePrizeAmount(t.topPrize), Num(0)),
     topPrizeRemaining |-> Num(0),
     expectedValue |-> Half,
     prizes |-> <<>>,
     gameNumber |-> t.gameNumber,
     lastUpdated |-> now]

\* $('.game-tile, ...').each: the elements with a name and a price text, from
\* element i (1-based here, index = i - 1) on
RECURSIVE TileGames(_, _, _)
TileGames(tiles, i, now) ==
    IF i > Len(tiles) THEN <<>>
    ELSE (IF tiles[i].name # <<>> /\ tiles[i].price # <<>>
          THEN <<TileGame(tiles[i], i - 1, now)>> ELSE <<>>)
         \o TileGames(tiles, i + 1, now)

\* cells.eq(k).text(): the empty text when the row has no such cell
Cell(cells, k) == IF k + 1 <= Len(cells) THEN cells[k + 1] ELSE <<>>

\* the game of one table row of the fallback extraction (server.js:115-126):
\* it has no gameNumber field
RowGame(cells, index, now) ==
    [id |-> <<"scratch", index + 1>>,
     name |-> Cell(cells, 0),
     type |-> "scratch-off",
     price |-> parsePrice(Cell(cells, 1)),
     overallOdds |-> OrText(parseOdds(Cell(cells, 2)), DefaultOdds),
     topPrize |-> Num(0),
     topPrizeRemaining |-> Num(0),
     expectedValue |-> Half,
     prizes |-> <<>>,
     lastUpdated |-> now]

RECURSIVE RowGames(_, _, _)
RowGames(rows, i, now) ==
    IF i > Len(rows) THEN <<>>
    ELSE (IF /\ Len(rows[i]) >= 2
             /\ Cell(rows[i], 0) # <<>>
             /\ Cell(rows[i], 1) # <<>>
             /\ Len(Cell(rows[i], 0)) > 3
          THEN <<RowGame(rows[i], i - 1, now)>> ELSE <<>>)
         \o RowGames(rows, i + 1, now)

scrapeScratchOffs(answer, now) ==
    IF answer.st = "fail" THEN <<>>
    ELSE LET games == TileGames(answer.data.tiles, 1, now)
         IN  IF Len(games) = 0 THEN RowGames(answer.data.rows, 1, now) ELSE games

\* Texts that name a member of Object.prototype.  An object literal has these
\* properties without having been given them: prizesData[gameNumber] and
\* prizesRemaining[gameNumber] find the inherited member, which is truthy and
\* has no prizes array.
InheritedKeys ==
    {<<"c", "o", "n", "s", "t", "r", "u", "c", "t", "o", "r">>,
     <<"t", "o", "S", "t", "r", "i", "n", "g">>,
     <<"v", "a", "l", "u", "e", "O", "f">>,
     <<"_", "_", "p", "r", "o", "t", "o", "_", "_">>}

\* prizesData[gameNumber].prizes.push of an inherited member: a TypeError
\* inside the try block of the adapter (server.js:166-177)
PrizeRowsThrow(rows) ==
    \E i \in 1..Len(rows) :
        /\ Len(rows[i]) >= 4
        /\ Cell(rows[i], 0) \in InheritedKeys
        /\ Cell(rows[i], 1) # <<>>

\* one row of the prize table added to prizesData (server.js:160-179)
AddPrizeRow(prizesData, cells) ==
    LET gameNumber == Cell(cells, 0)
        gameName == Cell(cells, 1)
        prize == [amount |-> parsePrizeAmount(Cell(cells, 2)),
                  remaining |-> OrNum(parseInt(Cell(cells, 3)), Num(0))]
    IN  IF Len(cells) >= 4 /\ gameNumber # <<>> /\ gameName # <<>>
        THEN IF gameNumber \in DOMAIN prizesData
             THEN [prizesData EXCEPT ![gameNumber].prizes = Append(@, prize)]
             ELSE [k \in DOMAIN prizesData \cup {gameNumber} |->
                      IF k = gameNumber THEN [name |-> gameName, prizes |-> <<prize>>]
                      ELSE prizesData[k]]
        ELSE prizesData

EmptyObject == [k \in {} |-> <<>>]

RECURSIVE PrizeRows(_, _, _)
PrizeRows(rows, i, prizesData) ==
    IF i > Len(rows) THEN prizesData
    ELSE PrizeRows(rows, i + 1, AddPrizeRow(prizesData, rows[i]))

\* the catch block returns {} for a failed fetch and for a failed extraction
scrapePrizesRemaining(answer) ==
    IF answer.st = "fail" \/ PrizeRowsThrow(answer.data) THEN EmptyObject
    ELSE PrizeRows(answer.data, 1, EmptyObject)

DefaultJackpot == 20000000

\* the fixed record of one draw game (server.js:209-225, 241-257)
DrawGame(id, name, odds, ev, third, fourth, jackpotText, now) ==
    [id |-> <<id>>,
     name |-> name,
     type |-> "draw",
     price |-> Num(2),
     overallOdds |-> odds,
     topPrize |-> OrNum(parsePrizeAmount(jackpotText), Num(DefaultJackpot)),
     topPrizeRemaining |-> Num(1),
     expectedValue |-> ev,
     prizes |-> << [amount |-> OrNum(parsePrizeAmount(jackpotText), Num(DefaultJackpot)),
                    remaining |-> Num(1)],
                   [amount |-> Num(1000000), remaining |-> Num(1)],
                   [amount |-> Num(third), remaining |-> Num(1)],
                   [amount |-> Num(fourth), remaining |-> Num(1)] >>,
     lastUpdated |-> now]

Powerball(jackpotText, now) ==
    DrawGame("powerball", <<"P", "o", "w", "e", "r", "b", "a", "l", "l">>,
             <<"1", " ", "i", "n", " ", "2", "4", ".", "9">>, Rat(3, 10),
             50000, 100, jackpotText, now)

MegaMillions(jackpotText, now) ==
    DrawGame("megamillions",
             <<"M", "e", "g", "a", " ", "M", "i", "l", "l", "i", "o", "n", "s">>,
             <<"1", " ", "i", "n", " ", "2", "4", ".", "0">>, Rat(28, 100),
             10000, 200, jackpotText, now)

\* one failed fetch empties the whole result
AllOrNothing(pow, meg, now) ==
    IF pow.st = "fail" \/ meg.st = "fail" THEN <<>>
    ELSE <<Powerball(pow.data, now), MegaMillions(meg.data, now)>>

\* both fetches have answered, each with the jackpot text found or a failure
scrapeDrawGames(pow, meg, now) ==
    (IF pow.st = "fail" THEN <<>> ELSE <<Powerball(pow.data, now)>>)
    \o (IF meg.st = "fail" THEN <<>> ELSE <<MegaMillions(meg.data, now)>>)

----------------------------------------------------------------------------
(* Expected value and merge *)

RECURSIVE SumValue(_, _)
SumValue(prizes, i) ==
    IF i > Len(prizes) THEN Num(0)
    ELSE RAdd(RMul(prizes[i].amount, prizes[i].remaining), SumValue(prizes, i + 1))

RECURSIVE SumTickets(_, _)
SumTickets(prizes, i) ==
    IF i > Len(prizes) THEN Num(0)
    ELSE RAdd(prizes[i].remaining, SumTickets(prizes, i + 1))

calculateExpectedValue(game) ==
    IF Len(game.prizes) = 0 THEN Half
    ELSE LET totalValue == SumValue(game.prizes, 1)
             winning == SumTickets(game.prizes, 1)
             oddsMatch == OddsCapture(game.overallOdds)
             odds == parseFloat(Strip(oddsMatch, {","}))
             losingTickets == RMax0(RMul(winning, RSub(odds, Num(1))))
             totalTickets == IF oddsMatch # <<>> THEN RAdd(winning, losingTickets)
                             ELSE winning
         IN  IF RGt(totalTickets, Num(0))
             THEN RDiv(RDiv(totalValue, totalTickets), game.price)
             ELSE Half

\* Array.prototype.sort((a, b) => b.amount - a.amount): stable, descending
RECURSIVE InsertPrize(_, _)
InsertPrize(sorted, p) ==
    IF sorted = <<>> THEN <<p>>
    ELSE IF RGt(p.amount, Head(sorted).amount) THEN <<p>> \o sorted
         ELSE <<Head(sorted)>> \o InsertPrize(Tail(sorted), p)

\* the tiers in the order of the ledger rows
LedgerOrder(prizes) == prizes

RECURSIVE SortPrizes(_)
SortPrizes(prizes) ==
    IF prizes = <<>> THEN <<>>
    ELSE InsertPrize(SortPrizes(SubSeq(prizes, 1, Len(prizes) - 1)), prizes[Len(prizes)])

Undefined == <<"u", "n", "d", "e", "f", "i", "n", "e", "d">>

\* the property key game.gameNumber selects in prizesRemaining
LedgerKey(game) ==
    IF "gameNumber" \in DOMAIN game THEN game.gameNumber ELSE Undefined

\* prizeData.prizes.sort of an inherited member: a TypeError in the merge
\* (server.js:309-312), caught by the catch block of updateLotteryData
MergeThrows(scratchOffs, prizesRemaining) ==
    \E i \in 1..Len(scratchOffs) :
        /\ LedgerKey(scratchOffs[i]) \notin DOMAIN prizesRemaining
        /\ LedgerKey(scratchOffs[i]) \in InheritedKeys

\* the body of scratchOffs.map (server.js:307-321), when it does not throw
MergeGame(game, prizesRemaining) ==
    LET gameNumber == LedgerKey(game)
        merged ==
            IF gameNumber \in DOMAIN prizesRemaining
            THEN LET prizes == SortPrizes(prizesRemaining[gameNumber].prizes)
                 IN  [game EXCEPT
                        !.prizes = prizes,
                        !.topPrize = IF prizes # <<>>
                                     THEN OrNum(prizes[1].amount, Num(0)) ELSE Num(0),
                        !.topPrizeRemaining = IF prizes # <<>>
                                     THEN OrNum(prizes[1].remaining, Num(0)) ELSE Num(0)]
            ELSE game
    IN  [merged EXCEPT !.expectedValue = calculateExpectedValue(merged)]

MergeAll(scratchOffs, prizesRemaining) ==
    [i \in 1..Len(scratchOffs) |-> MergeGame(scratchOffs[i], prizesRemaining)]

\* the snapshot a run builds from its three results (server.js:307-328)
BuildSnapshot(scratchOffs, prizesRemaining, drawGames, now) ==
    [scratchOffs |-> MergeAll(scratchOffs, prizesRemaining),
     drawGames |-> drawGames,
     lastUpdated |-> now]

----------------------------------------------------------------------------
(* Snapshot store *)

NoStamp == -1

\* the snapshot at process start (server.js:21-25); lastUpdated is null
EmptySnapshot == [scratchOffs |-> <<>>, drawGames |-> <<>>, lastUpdated |-> NoStamp]

\* JSON has no NaN and no infinities: JSON.stringify writes them as null
JsonNull == [n |-> 0, d |-> -1]

JsonNum(x) == IF IsFinite(x) THEN x ELSE JsonNull

JsonPrizes(prizes) ==
    [i \in 1..Len(prizes) |->
        [amount |-> JsonNum(prizes[i].amount), remaining |-> JsonNum(prizes[i].remaining)]]

JsonGame(g) ==
    [g EXCEPT !.price = JsonNum(@), !.topPrize = JsonNum(@),
              !.topPrizeRemaining = JsonNum(@), !.expectedValue = JsonNum(@),
              !.prizes = JsonPrizes(@)]

JsonGames(games) == [i \in 1..Len(games) |-> JsonGame(games[i])]

\* JSON.parse(JSON.stringify(snapshot, null, 2))
ToJson(snapshot) ==
    [scratchOffs |-> JsonGames(snapshot.scratchOffs),
     drawGames |-> JsonGames(snapshot.drawGames),
     lastUpdated |-> snapshot.lastUpdated]

\* The cache file: absent, text that JSON.parse rejects (an empty or cut-off
\* file), or JSON text, held as the value it parses to.
NoValue == [none |-> TRUE]

Absent == [kind |-> "absent", value |-> NoValue]

Garbage == [kind |-> "garbage", value |-> NoValue]

JsonFile(snapshot) == [kind |-> "json", value |-> ToJson(snapshot)]

\* the JSON text {"other": true}: it parses, to an object that is no snapshot
OtherJson == [kind |-> "json", value |-> [other |-> TRUE]]

IsSnapshot(v) == {"scratchOffs", "drawGames", "lastUpdated"} \subseteq DOMAIN v

----------------------------------------------------------------------------
(* Route handlers *)

NoResponse == [kind |-> "none"]

\* Express answers 500 when a handler throws (spreading undefined)
ErrorResponse(kind) == [kind |-> kind, status |-> 500]

Concat(snapshot) == snapshot.scratchOffs \o snapshot.drawGames

GamesResponse(kind, games, snapshot) ==
    [kind |-> kind, status |-> 200, games |-> games,
     lastUpdated |-> snapshot.lastUpdated, total |-> Len(games)]

\* parseFloat(overallOdds.match(/[\d.]+/)?.[0] || '999')
LeadingNumber(overallOdds) ==
    LET p == FirstIn(overallOdds, 1, Digit \cup {"."})
    IN  IF p = 0 THEN Num(999)
        ELSE parseFloat(Slice(overallOdds, p, RunEnd(overallOdds, p, Digit \cup {"."})))

\* allGames.reduce(f) without an initial value: the fold from the first game
RECURSIVE ReduceBestOdds(_, _, _)
ReduceBestOdds(games, i, best) ==
    IF i > Len(games) THEN best
    ELSE ReduceBestOdds(games, i + 1,
            IF RLt(LeadingNumber(games[i].overallOdds), LeadingNumber(best.overallOdds))
            THEN games[i] ELSE best)

RECURSIVE ReduceBiggestPrize(_, _, _)
ReduceBiggestPrize(games, i, biggest) ==
    IF i > Len(games) THEN biggest
    ELSE ReduceBiggestPrize(games, i + 1,
            IF RGt(games[i].topPrize, biggest.topPrize) THEN games[i] ELSE biggest)

RECURSIVE ReduceBestValue(_, _, _)
ReduceBestValue(games, i, best) ==
    IF i > Len(games) THEN best
    ELSE ReduceBestValue(games, i + 1,
            IF RGt(games[i].expectedValue, best.expectedValue) THEN games[i] ELSE best)

\* app.get('/api/stats') (server.js:395-427)
StatsResponse(snapshot) ==
    LET allGames == Concat(snapshot)
    IN  IF Len(allGames) = 0
        THEN [kind |-> "stats", status |-> 200, totalGames |-> 0, bestOdds |-> Null,
              biggestPrize |-> Num(0), bestValue |-> Num(0)]
        ELSE [kind |-> "stats", status |-> 200, totalGames |-> Len(allGames),
              bestOdds |-> ReduceBestOdds(allGames, 2, allGames[1]).overallOdds,
              biggestPrize |-> ReduceBiggestPrize(allGames, 2, allGames[1]).topPrize,
              bestValue |-> ReduceBestValue(allGames, 2, allGames[1]).expectedValue]

\* app.get('/health'): dataAge is lotteryData.lastUpdated, undefined when the
\* installed object has none
HealthResponse(data) ==
    [kind |-> "health", status |-> 200,
     dataAge |-> IF "lastUpdated" \in DOMAIN data THEN data.lastUpdated ELSE NoStamp]

----------------------------------------------------------------------------
(* The upstream pages of the model *)

T77 == <<"7", "7">>

Gold == <<"G", "o", "l", "d">>

ScratchPage ==
    [tiles |-> << [name |-> Gold, price |-> <<"$", "5">>,
                   odds |-> <<"1", " ", "i", "n", " ", "3", ".", "5">>,
                   topPrize |-> <<"$", "9", "0">>, gameNumber |-> T77],
                  [name |-> <<"C", "a", "s", "h">>, price |-> <<"$", "2">>,
                   odds |-> <<>>, topPrize |-> <<>>, gameNumber |-> <<>>] >>,
     rows |-> <<>>]

LedgerPage ==
    << <<T77, Gold, <<"$", "5", "0">>, <<"1", "0", "0">>>>,
       <<T77, Gold, <<"$", "1", ",", "0", "0", "0">>, <<"2">>>> >>

JackpotText == <<"$", "3", "0", " ", "M">>

\* a page without game tiles: the games are found in its table rows
RowsPage ==
    [tiles |-> <<>>,
     rows |-> << <<<<"G", "a", "m", "e">>, <<"P", "r", "i", "c", "e">>>>,
                 <<<<"L", "u", "c", "k", "y">>, <<"$", "1", "0">>,
                   <<"1", " ", "I", "N", " ", "1", ",", "2", "0", "0">>>> >>]

\* a prize table of another game, with a row that is too short
OtherLedgerPage ==
    << <<<<"1", "2">>, <<"C", "a", "s", "h">>, <<"$", "2", "0">>, <<"3">>>>,
       <<<<"1", "2">>, <<"C", "a", "s", "h">>, <<"$", "5">>>> >>

\* a page whose game tile has, as its game number, a text that names a member
\* of Object.prototype
InheritedPage ==
    [tiles |-> << [name |-> Gold, price |-> <<"$", "5">>, odds |-> <<>>,
                   topPrize |-> <<"$", "9", "0">>,
                   gameNumber |-> <<"v", "a", "l", "u", "e", "O", "f">>] >>,
     rows |-> <<>>]

\* a prize table with such a game number
InheritedLedgerPage ==
    << <<T77, Gold, <<"$", "5", "0">>, <<"1", "0", "0">>>>,
       <<<<"t", "o", "S", "t", "r", "i", "n", "g">>, Gold, <<"$", "5">>, <<"1">>>> >>

T1234 == <<"1", "2", "3", "4">>

Mega == <<"M", "e", "g", "a">>

\* a page with a game that has no odds text, one whose odds text is not of
\* the form "1 in N", and one whose odds text has separators but no digit
ExamplePage ==
    [tiles |-> << [name |-> Mega, price |-> <<"$", "5">>, odds |-> <<>>,
                   topPrize |-> <<>>, gameNumber |-> T1234],
                  [name |-> Gold, price |-> <<"$", "2">>, odds |-> <<"n", "/", "a">>,
                   topPrize |-> <<"$", "9", "0">>, gameNumber |-> T77],
                  [name |-> <<"C", "a", "s", "h">>, price |-> <<"$", "5">>,
                   odds |-> <<"1", " ", "i", "n", " ", ",">>,
                   topPrize |-> <<>>, gameNumber |-> T1234] >>,
     rows |-> <<>>]

\* the prize table of game 1234, smallest prize first, and a tier of game 77
\* with nothing left
ExampleLedgerPage ==
    << <<T1234, Mega, <<"$", "5", "0">>, <<"1", "0", "0", "0">>>>,
       <<T1234, Mega, <<"$", "5", "0", "0", ",", "0", "0", "0">>, <<"1">>>>,
       <<T77, Gold, <<"$", "2", "0">>, <<"0">>>> >>

\* a prize table whose remaining column holds a negative number
NegativeLedgerPage ==
    << <<T77, Gold, <<"$", "5", "0">>, <<"-", "5">>>>,
       <<T77, Gold, <<"$", "1", ",", "0", "0", "0">>, <<"1", "0">>>> >>

\* a prize table that shows "undefined" for the number of a game
UndefinedLedgerPage ==
    << <<Undefined, <<"L", "u", "c", "k", "y">>, <<"$", "2", "0">>, <<"3">>>> >>

ScratchAnswers ==
    {Failed, Ok(ScratchPage), Ok(RowsPage), Ok(InheritedPage), Ok(ExamplePage)}

LedgerAnswers ==
    {Failed, Ok(LedgerPage), Ok(OtherLedgerPage), Ok(InheritedLedgerPage),
     Ok(ExampleLedgerPage), Ok(NegativeLedgerPage), Ok(UndefinedLedgerPage)}

\* the jackpot element may be missing from the page: its text is empty
JackpotAnswers == {Failed, Ok(JackpotText), Ok(<<>>)}

\* the answers one run can get in the system-level specification
SettledAnswers ==
    {[scratch |-> Ok(ScratchPage), ledger |-> Ok(LedgerPage),
      pow |-> Ok(JackpotText), meg |-> Ok(JackpotText)],
     [scratch |-> Ok(ScratchPage), ledger |-> Failed,
      pow |-> Failed, meg |-> Ok(JackpotText)],
     [scratch |-> Failed, ledger |-> Ok(LedgerPage),
      pow |-> Ok(JackpotText), meg |-> Ok(<<>>)],
     [scratch |-> Ok(InheritedPage), ledger |-> Ok(InheritedLedgerPage),
      pow |-> Ok(JackpotText), meg |-> Ok(JackpotText)]}

\* a snapshot persisted by an earlier process
OldSnapshot ==
    BuildSnapshot(scrapeScratchOffs(Ok(ScratchPage), 0), scrapePrizesRemaining(Ok(LedgerPage)),
                  scrapeDrawGames(Ok(JackpotText), Failed, 0), 0)

InitialCacheFiles == {Absent, Garbage, OtherJson, JsonFile(OldSnapshot)}

----------------------------------------------------------------------------
(* Pipeline runs *)

MaxRuns == 2

Runs == 1..MaxRuns

Idle == [st |-> "idle", data |-> <<>>]

Pending == [st |-> "pending", data |-> <<>>]

NoRun ==
    [pc |-> "none", trigger |-> "none", scratch |-> Idle, ledger |-> Idle,
     pow |-> Idle, meg |-> Idle, threw |-> FALSE, installed |-> FALSE]

Answered(slot) == slot.st \in {"ok", "fail"}

\* Promise.all has all three results
Joined(run) ==
    Answered(run.scratch) /\ Answered(run.ledger) /\ Answered(run.pow) /\ Answered(run.meg)

\* the answers a run has got
AnswersOf(run) ==
    [scratch |-> run.scratch, ledger |-> run.ledger, pow |-> run.pow, meg |-> run.meg]

AllAnswers ==
    [scratch : ScratchAnswers, ledger : LedgerAnswers,
     pow : JackpotAnswers, meg : JackpotAnswers]

\* whether the merge of run r throws
Throws(answers, r) ==
    MergeThrows(scrapeScratchOffs(answers.scratch, r), scrapePrizesRemaining(answers.ledger))

\* the snapshot run r builds once its adapters have returned
SnapshotOf(answers, r) ==
    BuildSnapshot(scrapeScratchOffs(answers.scratch, r),
                  scrapePrizesRemaining(answers.ledger),
                  scrapeDrawGames(answers.pow, answers.meg, r), r)

\* updateLotteryData from the join to its call of fs.writeFile
\* (server.js:306-331): the merge throws, or there is a snapshot to install and
\* its JSON text to write
Merged(answers, r) ==
    IF Throws(answers, r) THEN [threw |-> TRUE]
    ELSE [threw |-> FALSE, snapshot |-> SnapshotOf(answers, r),
          file |-> JsonFile(SnapshotOf(answers, r))]

\* Merged is a function of the answers and of the time of the run: here it is
\* for every combination, computed once
Joins == {[answers |-> a, now |-> r, result |-> Merged(a, r)] : a \in AllAnswers, r \in Runs}

JoinOf(run, r) ==
    (CHOOSE j \in Joins : j.now = r /\ j.answers = AnswersOf(run)).result

Init ==
    /\ lotteryData = EmptySnapshot
    /\ cacheFile \in InitialCacheFiles
    /\ startup = "reading"
    /\ runs = [r \in Runs |-> NoRun]
    /\ resp = NoResponse

\* the first run id not used yet
NextRun == IF \E r \in Runs : runs[r].pc = "none"
           THEN CHOOSE r \in Runs : runs[r].pc = "none" /\ \A q \in 1..(r - 1) : runs[q].pc # "none"
           ELSE 0

\* updateLotteryData up to its await: the three adapters are called and each
\* has issued its first fetch (server.js:300-304)
StartRun(trigger) ==
    /\ NextRun # 0
    /\ runs' = [runs EXCEPT ![NextRun] =
                  [pc |-> "fetching", trigger |-> trigger, scratch |-> Pending,
                   ledger |-> Pending, pow |-> Pending, meg |-> Idle, threw |-> FALSE,
                   installed |-> FALSE]]

\* a bug: the fields of the global object are updated one by one, and one is missed
InstallFieldwise(current, built) ==
    IF IsSnapshot(current) THEN [built EXCEPT !.scratchOffs = current.scratchOffs]
    ELSE built

\* lotteryData = { ... }: one assignment of the whole object (server.js:324-328)
Install(current, built) == built

\* a bug: the catch block throws the exception again
Rethrown(threw) == threw

\* whether an exception raised inside updateLotteryData reaches its caller:
\* the try/catch around the whole body logs it (server.js:296, 335-337)
Escapes(threw) == FALSE

\* app.get('/api/refresh') after its await (server.js:378-393)
RefreshResponse(escaped, data) ==
    IF escaped
    THEN [kind |-> "refresh", status |-> 500, success |-> FALSE, lastUpdated |-> NoStamp]
    ELSE [kind |-> "refresh", status |-> 200, success |-> TRUE,
          lastUpdated |-> IF "lastUpdated" \in DOMAIN data THEN data.lastUpdated ELSE NoStamp]

\* a bug: the catch block resets the snapshot
AfterWriteFailureReset(data) == EmptySnapshot

\* lotteryData after a failed fs.writeFile: the catch block only logs
AfterWriteFailure(data) == data

\* run r returns to its caller: the refresh handler answers, startServer
\* goes on to app.listen (server.js:448-454), the cron callback drops it
Return(r, threw) ==
    /\ runs' = [runs EXCEPT ![r] = [NoRun EXCEPT !.pc = "done", !.threw = threw,
                                                 !.installed = (runs[r].pc = "writing")]]
    /\ resp' = IF runs[r].trigger = "refresh"
               THEN RefreshResponse(Escapes(threw), lotteryData') @@ [run |-> r]
               ELSE NoResponse
    /\ startup' = IF runs[r].trigger = "startup" THEN "listening" ELSE startup

\* fs.writeFile of run r completes (server.js:331-333)
WriteDone(r) ==
    /\ runs[r].pc = "writing"
    /\ cacheFile' = JoinOf(runs[r], r).file
    /\ UNCHANGED lotteryData
    /\ Return(r, FALSE)

\* fs.writeFile of run r fails: the file is as it was, or cut off
WriteFail(r) ==
    /\ runs[r].pc = "writing"
    /\ cacheFile' \in {cacheFile, Garbage}
    /\ lotteryData' = AfterWriteFailure(lotteryData)
    /\ Return(r, TRUE)

\* run r, now `run`, has got an answer: when it was the last one, Promise.all
\* resolves and the run merges, installs its snapshot and calls fs.writeFile
\* (server.js:306-331) before anything else can happen; when the merge throws,
\* the catch block logs and the run returns with nothing installed
Arrive(r, run) ==
    /\ UNCHANGED cacheFile
    /\ IF ~Joined(run)
       THEN /\ runs' = [runs EXCEPT ![r] = run]
            /\ resp' = NoResponse
            /\ UNCHANGED <<lotteryData, startup>>
       ELSE LET join == JoinOf(run, r)
            IN  IF join.threw
                THEN /\ UNCHANGED lotteryData
                     /\ Return(r, TRUE)
                ELSE /\ runs' = [runs EXCEPT ![r] = [run EXCEPT !.pc = "writing"]]
                     /\ lotteryData' = Install(lotteryData, join.snapshot)
                     /\ resp' = NoResponse
                     /\ UNCHANGED startup

\* run r as its fetch of the instant-game page leaves it, for each answer
ScratchAnswer(r) ==
    IF runs[r].scratch.st # "pending" THEN {}
    ELSE {[runs[r] EXCEPT !.scratch = a] : a \in ScratchAnswers}

LedgerAnswer(r) ==
    IF runs[r].ledger.st # "pending" THEN {}
    ELSE {[runs[r] EXCEPT !.ledger = a] : a \in LedgerAnswers}

\* the Powerball fetch answers; scrapeDrawGames goes on to fetch Mega Millions
PowAnswer(r) ==
    IF runs[r].pow.st # "pending" THEN {}
    ELSE {[runs[r] EXCEPT !.pow = a, !.meg = Pending] : a \in JackpotAnswers}

MegAnswer(r) ==
    IF runs[r].meg.st # "pending" THEN {}
    ELSE {[runs[r] EXCEPT !.meg = a] : a \in JackpotAnswers}

\* one of the pending fetches of run r is answered
FetchAnswer(r) ==
    /\ runs[r].pc = "fetching"
    /\ \E run \in ScratchAnswer(r) \cup LedgerAnswer(r) \cup PowAnswer(r) \cup MegAnswer(r) :
          Arrive(r, run)

\* what JSON.parse(cachedData) gives loadCachedData to install (server.js:344)
Parsed(file) == file.value

\* fs.readFile answers loadCachedData (server.js:341-350)
LoadCached ==
    /\ startup = "reading"
    /\ resp' = NoResponse
    /\ UNCHANGED cacheFile
    /\ IF cacheFile.kind = "json"
       THEN /\ lotteryData' = Parsed(cacheFile)
            /\ startup' = "listening"
            /\ UNCHANGED runs
       ELSE /\ StartRun("startup")
            /\ startup' = "refreshing"
            /\ UNCHANGED lotteryData

\* the cron callback, scheduled when the module is loaded (server.js:440-443)
CronTick ==
    /\ StartRun("cron")
    /\ resp' = NoResponse
    /\ UNCHANGED <<lotteryData, cacheFile, startup>>

\* GET /api/refresh arrives: the server is listening
RefreshRequest ==
    /\ startup = "listening"
    /\ StartRun("refresh")
    /\ resp' = NoResponse
    /\ UNCHANGED <<lotteryData, cacheFile, startup>>

Answer(response) ==
    /\ startup = "listening"
    /\ resp' = response
    /\ UNCHANGED <<lotteryData, cacheFile, startup, runs>>

GetGames ==
    Answer(IF IsSnapshot(lotteryData)
           THEN GamesResponse("games", Concat(lotteryData), lotteryData)
           ELSE ErrorResponse("games"))

GetScratchOffs ==
    Answer(IF IsSnapshot(lotteryData)
           THEN GamesResponse("scratch-offs", lotteryData.scratchOffs, lotteryData)
           ELSE ErrorResponse("scratch-offs"))

GetDrawGames ==
    Answer(IF IsSnapshot(lotteryData)
           THEN GamesResponse("draw-games", lotteryData.drawGames, lotteryData)
           ELSE ErrorResponse("draw-games"))

GetStats ==
    Answer(IF IsSnapshot(lotteryData) THEN StatsResponse(lotteryData)
           ELSE ErrorResponse("stats"))

GetHealth == Answer(HealthResponse(lotteryData))

\* The adapters of run r have all returned.  What they hold while waiting is
\* local to the run and nothing else reads it, so the system-level
\* specification takes the answers of a run in one step.
Settle(r) ==
    /\ runs[r].pc = "fetching"
    /\ \E run \in {[runs[r] EXCEPT !.scratch = a.scratch, !.ledger = a.ledger,
                                    !.pow = a.pow, !.meg = a.meg] : a \in SettledAnswers} :
          Arrive(r, run)

Next ==
    \/ LoadCached
    \/ CronTick
    \/ RefreshRequest
    \/ \E r \in Runs : Settle(r)
    \/ \E r \in Runs : WriteDone(r)
    \/ \E r \in Runs : WriteFail(r)
    \/ GetGames
    \/ GetScratchOffs
    \/ GetDrawGames
    \/ GetStats
    \/ GetHealth

Spec == Init /\ [][Next]_vars

----------------------------------------------------------------------------
(* One pipeline run, fetch by fetch.  axios.get is called without a        *)
(* timeout (server.js:65-69, 146-150, 200-204, 232-236): a fetch that the  *)
(* upstream never answers stays pending for ever.                          *)

Hung == [st |-> "hung", data |-> <<>>]

\* the upstream will never answer one of the pending fetches of run r
Hang(r) ==
    /\ runs[r].pc = "fetching"
    /\ \/ runs[r].scratch.st = "pending" /\ runs' = [runs EXCEPT ![r].scratch = Hung]
       \/ runs[r].ledger.st = "pending" /\ runs' = [runs EXCEPT ![r].ledger = Hung]
       \/ runs[r].pow.st = "pending" /\ runs' = [runs EXCEPT ![r].pow = Hung]
       \/ runs[r].meg.st = "pending" /\ runs' = [runs EXCEPT ![r].meg = Hung]
    /\ resp' = NoResponse
    /\ UNCHANGED <<lotteryData, cacheFile, startup>>

\* the first timer tick of a process that started from its cache file
FirstTick ==
    /\ startup = "listening"
    /\ \A r \in Runs : runs[r].pc = "none"
    /\ CronTick

PipelineNext ==
    \/ LoadCached
    \/ FirstTick
    \/ \E r \in Runs : FetchAnswer(r)
    \/ \E r \in Runs : Hang(r)
    \/ \E r \in Runs : WriteDone(r)
    \/ \E r \in Runs : WriteFail(r)

PipelineSpec == Init /\ [][PipelineNext]_vars

\* The event loop runs every callback whose event has happened: an answer
\* that the upstream sends is delivered, a file operation completes.
PipelineFairness ==
    /\ WF_vars(LoadCached)
    /\ \A r \in Runs :
          /\ WF_vars(FetchAnswer(r))
          /\ WF_vars(WriteDone(r) \/ WriteFail(r))

FairPipelineSpec == PipelineSpec /\ PipelineFairness

----------------------------------------------------------------------------
(* Claims *)

Executing == {r \in Runs : runs[r].pc \in {"fetching", "writing"}}

\* C1: refresh triggers are coalesced, so that at most one pipeline run is
\* executing at any time.
C1_AtMostOneRunExecuting == Cardinality(Executing) <= 1

\* C2: at most one pipeline run is inside its replace-and-persist section
\* (after its assignment of lotteryData, before its fs.writeFile has settled).
C2_ReplaceMutuallyExclusive == Cardinality({r \in Runs : runs[r].pc = "writing"}) <= 1

\* the complete snapshots of a process: the empty one, the one loaded at
\* startup, and the one each run builds from the answers it got
CompleteSnapshots ==
    {EmptySnapshot, ToJson(OldSnapshot)}
    \cup {SnapshotOf(a, r) : a \in {s \in SettledAnswers : ~Throws(s, 1)}, r \in Runs}

ReadKinds == {"games", "scratch-offs", "draw-games", "stats"}

FromOneSnapshot(response, snapshot) ==
    CASE response.kind = "games" ->
            /\ response.games = Concat(snapshot)
            /\ response.lastUpdated = snapshot.lastUpdated
      [] response.kind = "scratch-offs" ->
            /\ response.games = snapshot.scratchOffs
            /\ response.lastUpdated = snapshot.lastUpdated
      [] response.kind = "draw-games" ->
            /\ response.games = snapshot.drawGames
            /\ response.lastUpdated = snapshot.lastUpdated
      [] response.kind = "stats" -> response = StatsResponse(snapshot)

\* C3: every answer of a query handler is made of the instant games, the draw
\* games and the timestamp of one complete snapshot, never of a mixture.
C3_ReadsSeeOneSnapshot ==
    /\ resp.kind \in ReadKinds /\ resp.status = 200
          => \E snapshot \in CompleteSnapshots : FromOneSnapshot(resp, snapshot)
    /\ resp.kind = "health"
          => resp.dataAge \in {NoStamp} \cup {snapshot.lastUpdated : snapshot \in CompleteSnapshots}

\* a query is answered from the snapshot of a run while another run is under way
C3_Witness ==
    /\ resp.kind = "games"
    /\ resp.status = 200
    /\ resp.lastUpdated \in Runs
    /\ resp.total > 0
    /\ \E r \in Runs : runs[r].pc = "fetching"

\* C4: every started pipeline run eventually completes, even when an upstream
\* source never answers a fetch.
C4_EveryRunCompletes ==
    \A r \in Runs : (runs[r].pc = "fetching") ~> (runs[r].pc = "done")

\* C5: no pipeline run has started while the startup load of the cache file
\* is still pending.
C5_LoadBeforeScheduledRuns ==
    startup = "reading" => \A r \in Runs : runs[r].pc = "none"

\* C6: an on-demand refresh answers success exactly when its pipeline run hit
\* no pipeline-level exception, and a structured failure otherwise.
C6_RefreshReportsPipelineFailure ==
    resp.kind = "refresh" => (resp.success <=> ~runs[resp.run].threw)

\* C7: whatever adapters failed, a run whose adapters have all returned
\* installs a snapshot, and the snapshot holds the games of every adapter that
\* succeeded; with an empty prize ledger the instant games keep the prize
\* tiers, top prize and top prize count of their adapter, and the draw games
\* are those of the draw adapter.
C7_PartialFailureResilience ==
    \A r \in Runs :
        /\ runs[r].pc = "done" => runs[r].installed
        /\ runs[r].pc = "writing" =>
            LET produced == scrapeScratchOffs(runs[r].scratch, r)
                draws == lotteryData.drawGames
            IN  /\ lotteryData.lastUpdated = r
                /\ runs[r].scratch.st = "fail" => lotteryData.scratchOffs = <<>>
                /\ Len(lotteryData.scratchOffs) = Len(produced)
                /\ \A i \in 1..Len(produced) :
                      /\ lotteryData.scratchOffs[i].id = produced[i].id
                      /\ lotteryData.scratchOffs[i].name = produced[i].name
                      /\ DOMAIN scrapePrizesRemaining(runs[r].ledger) = {} =>
                            /\ lotteryData.scratchOffs[i].prizes = produced[i].prizes
                            /\ lotteryData.scratchOffs[i].topPrize = produced[i].topPrize
                            /\ lotteryData.scratchOffs[i].topPrizeRemaining
                                  = produced[i].topPrizeRemaining
                /\ draws = (IF runs[r].pow.st = "ok"
                            THEN <<Powerball(runs[r].pow.data, r)>> ELSE <<>>)
                           \o (IF runs[r].meg.st = "ok"
                               THEN <<MegaMillions(runs[r].meg.data, r)>> ELSE <<>>)

\* C8: when the write of the cache file fails, the snapshot in memory stays
\* the one installed before, and the run returns normally: the refresh is
\* answered with success, the startup goes on to listen.
C8_WriteFailureKeepsSnapshot ==
    [][\A r \in Runs :
          (runs[r].pc = "writing" /\ runs'[r].pc = "done" /\ runs'[r].threw) =>
             /\ lotteryData' = lotteryData
             /\ runs[r].trigger = "refresh" => resp'.kind = "refresh" /\ resp'.success
             /\ runs[r].trigger = "startup" => startup' = "listening"]_vars

\* the write of a run failed and readers still get the snapshot of that run
C8_Witness ==
    /\ resp.kind = "games"
    /\ resp.status = 200
    /\ resp.lastUpdated \in Runs
    /\ runs[resp.lastUpdated].pc = "done"
    /\ runs[resp.lastUpdated].threw
    /\ resp.total > 0

\* C9: the startup load installs the persisted content when it is a snapshot,
\* and starts no run; otherwise it leaves the snapshot in memory as it is and
\* starts exactly one run.
C9_LoadInstallsOnlySnapshots ==
    [][(startup = "reading" /\ startup' # "reading") =>
          IF cacheFile.kind = "json" /\ IsSnapshot(cacheFile.value)
          THEN /\ lotteryData' = cacheFile.value
               /\ runs' = runs
          ELSE /\ lotteryData' = lotteryData
               /\ \E r \in Runs :
                     /\ runs[r].pc = "none"
                     /\ runs'[r].pc = "fetching"
                     /\ runs'[r].trigger = "startup"
                     /\ \A q \in Runs \ {r} : runs'[q] = runs[q]]_vars

\* the number N of a game whose odds have the form "1 in N"
OddsN(game) == parseFloat(Strip(OddsCapture(game.overallOdds), {","}))

OneInGames(games) ==
    {i \in 1..Len(games) : OddsCapture(games[i].overallOdds) # <<>>
                           /\ ~IsNaN(OddsN(games[i]))}

\* the first game with the lowest N
LowestN(games) ==
    CHOOSE i \in OneInGames(games) :
        /\ \A j \in OneInGames(games) : ~RLt(OddsN(games[j]), OddsN(games[i]))
        /\ \A j \in OneInGames(games) : j < i => RLt(OddsN(games[i]), OddsN(games[j]))

\* C10: the best odds of /api/stats are the odds of the first game with the
\* lowest N among the games whose odds have the form "1 in N".
C10_BestOddsIsLowestN ==
    (resp.kind = "stats" /\ resp.status = 200 /\ OneInGames(Concat(lotteryData)) # {})
        => resp.bestOdds = Concat(lotteryData)[LowestN(Concat(lotteryData))].overallOdds

----------------------------------------------------------------------------
(* Expected value and merge of the instant games *)

\* the instant games a run has installed
InstalledGames == {lotteryData.scratchOffs[i] : i \in 1..Len(lotteryData.scratchOffs)}

SomeRunWriting == \E r \in Runs : runs[r].pc = "writing"

RECURSIVE TotalValue(_)
TotalValue(tiers) ==
    IF tiers = <<>> THEN Num(0)
    ELSE RAdd(TotalValue(Tail(tiers)), RMul(Head(tiers).remaining, Head(tiers).amount))

RECURSIVE TotalRemaining(_)
TotalRemaining(tiers) ==
    IF tiers = <<>> THEN Num(0)
    ELSE RAdd(TotalRemaining(Tail(tiers)), Head(tiers).remaining)

\* the number of "1 in <number>" in the odds text with the separators left
\* out, <<>> when the text has no such number
RatioText(odds) == Strip(OddsCapture(odds), {","})

\* the estimate of section 4.4 for a game with tiers
Estimate(game) ==
    LET T == TotalRemaining(game.prizes)
        N == parseFloat(RatioText(game.overallOdds))
        totalTickets == IF RatioText(game.overallOdds) # <<>> /\ ~IsNaN(N)
                        THEN RAdd(T, RMax0(RMul(T, RSub(N, Num(1)))))
                        ELSE T
    IN  IF game.prizes = <<>> THEN Half
        ELSE IF RGt(totalTickets, Num(0))
             THEN RDiv(RDiv(TotalValue(game.prizes), totalTickets), game.price)
             ELSE Half

\* C11: the expected value stored for every instant game of an installed
\* snapshot is the estimate of section 4.4: 0.5 without tiers, otherwise
\* (totalValue / totalTickets) / price with the losing tickets added when the
\* odds text holds a parseable number N, and totalTickets the sum of the
\* remaining counts when it does not.
C11_StoredValueIsEstimate ==
    SomeRunWriting => \A g \in InstalledGames : g.expectedValue = Estimate(g)

\* by how much the amount of a tier is raised
Raises == {Num(1), Num(1000)}

\* the game with the amount of tier i raised by d
RaiseTier(game, i, d) == [game EXCEPT !.prizes[i].amount = RAdd(@, d)]

\* C12: for every instant game of an installed snapshot, whose remaining
\* counts are those the prize adapter produced, raising the amount of one tier
\* never gives an expected value below the one stored.
C12_ValueMonotoneInAmount ==
    SomeRunWriting =>
        \A g \in InstalledGames : \A i \in 1..Len(g.prizes) : \A d \in Raises :
            ~RLt(calculateExpectedValue(RaiseTier(g, i, d)), g.expectedValue)

\* the instant games of run r as its adapter produced them, before the merge
Produced(r) == scrapeScratchOffs(runs[r].scratch, r)

\* the prize ledger of run r
Ledger(r) == scrapePrizesRemaining(runs[r].ledger)

\* game has a number and the ledger has an entry for that number
Matched(game, ledger) ==
    /\ "gameNumber" \in DOMAIN game
    /\ game.gameNumber # <<>>
    /\ game.gameNumber \in DOMAIN ledger

\* C13: in the snapshot a run installs, every instant game that has no game
\* number, or whose number has no entry in the prize ledger, has the prize
\* tiers, top prize and top prize count its adapter produced.
C13_UnmatchedGamesUntouched ==
    \A r \in Runs : runs[r].pc = "writing" =>
        \A i \in 1..Len(Produced(r)) :
            ~Matched(Produced(r)[i], Ledger(r)) =>
                /\ lotteryData.scratchOffs[i].prizes = Produced(r)[i].prizes
                /\ lotteryData.scratchOffs[i].topPrize = Produced(r)[i].topPrize
                /\ lotteryData.scratchOffs[i].topPrizeRemaining
                      = Produced(r)[i].topPrizeRemaining

\* how many times tier p occurs in tiers
Occurrences(tiers, p) == Cardinality({i \in 1..Len(tiers) : tiers[i] = p})

Permutation(a, b) ==
    /\ Len(a) = Len(b)
    /\ \A i \in 1..Len(a) : Occurrences(a, a[i]) = Occurrences(b, a[i])

NonIncreasing(tiers) ==
    \A i \in 1..(Len(tiers) - 1) : ~RLt(tiers[i].amount, tiers[i + 1].amount)

\* C14: in the snapshot a run installs, every instant game whose number has
\* an entry in the prize ledger has the tiers of that entry, each as often as
\* in the entry, in an order of non-increasing amount; its top prize and top
\* prize count are the amount and count of the first tier, and both 0 when
\* there is no tier.
C14_MatchedGamesTakeLedgerTiers ==
    \A r \in Runs : runs[r].pc = "writing" =>
        \A i \in 1..Len(Produced(r)) :
            Matched(Produced(r)[i], Ledger(r)) =>
                LET game == lotteryData.scratchOffs[i]
                    entry == Ledger(r)[Produced(r)[i].gameNumber]
                IN  /\ Permutation(game.prizes, entry.prizes)
                    /\ NonIncreasing(game.prizes)
                    /\ game.topPrize = IF game.prizes = <<>> THEN Num(0)
                                       ELSE game.prizes[1].amount
                    /\ game.topPrizeRemaining = IF game.prizes = <<>> THEN Num(0)
                                                ELSE game.prizes[1].remaining

\* a matched game whose ledger entry lists a smaller prize before a larger one
C14_Witness ==
    \E r \in Runs :
        /\ runs[r].pc = "writing"
        /\ \E i \in 1..Len(Produced(r)) :
              /\ Matched(Produced(r)[i], Ledger(r))
              /\ ~NonIncreasing(Ledger(r)[Produced(r)[i].gameNumber].prizes)
              /\ Len(lotteryData.scratchOffs[i].prizes) = 2

\* the games of the snapshot in memory, instant and draw
AllGames ==
    {lotteryData.scratchOffs[i] : i \in 1..Len(lotteryData.scratchOffs)}
        \cup {lotteryData.drawGames[i] : i \in 1..Len(lotteryData.drawGames)}

\* tier i of tiers has the largest amount
Largest(tiers, i) == \A j \in 1..Len(tiers) : ~RGt(tiers[j].amount, tiers[i].amount)

\* C15: every game of an installed snapshot that has prize tiers, instant or
\* draw, has as top prize the largest amount among its tiers and as top prize
\* count the count of a tier with that amount.
C15_TopPrizeIsLargestTier ==
    SomeRunWriting =>
        \A g \in AllGames : g.prizes # <<>> =>
            \E i \in 1..Len(g.prizes) :
                /\ Largest(g.prizes, i)
                /\ g.topPrize = g.prizes[i].amount
                /\ g.topPrizeRemaining = g.prizes[i].remaining

\* the ids of the draw games of the snapshot in memory, in order
DrawIds == [i \in 1..Len(lotteryData.drawGames) |-> lotteryData.drawGames[i].id]

\* C16: the draw games of the snapshot a run installs are exactly those whose
\* fetch succeeded, Powerball with id "powerball" before Mega Millions with id
\* "megamillions"; a failed fetch of one does not remove the other, and with
\* both failed the run still installs, with no draw game.
C16_DrawGamesFailIndependently ==
    \A r \in Runs : runs[r].pc = "writing" =>
        DrawIds = (IF runs[r].pow.st = "ok" THEN <<(<<"powerball">>)>> ELSE <<>>)
                  \o (IF runs[r].meg.st = "ok" THEN <<(<<"megamillions">>)>> ELSE <<>>)

\* the Powerball fetch failed and Mega Millions is installed
C16_Witness ==
    \E r \in Runs :
        /\ runs[r].pc = "writing"
        /\ runs[r].pow.st = "fail"
        /\ DrawIds = <<(<<"megamillions">>)>>

\* the odds text of the page element instant game g was made from: the games
\* of tiles have a gameNumber field, those of table rows have none, and the id
\* of a game holds the position of its element
OddsText(page, g) ==
    IF "gameNumber" \in DOMAIN g THEN page.tiles[g.id[2]].odds
    ELSE Cell(page.rows[g.id[2]], 2)

\* the odds of section 4.1 for an odds text: nothing for the empty text,
\* "1 in <number>" with the separators of the number left out when the text
\* holds the pattern, the text itself otherwise
OddsRatio(text) ==
    IF text = <<>> THEN Null
    ELSE IF OddsCapture(text) # <<>> THEN OneIn \o Strip(OddsCapture(text), {","})
         ELSE text

\* C17: the odds of every instant game of an installed snapshot are what
\* section 4.1 gives for the odds text of its page element, "1 in <number>"
\* with the separators stripped when the pattern is present, the text itself
\* when it is not, and the default "1 in 4.0" for the empty text.
C17_OddsSeparatorsStripped ==
    \A r \in Runs : runs[r].pc = "writing" =>
        \A g \in InstalledGames :
            g.overallOdds = OrText(OddsRatio(OddsText(runs[r].scratch.data, g)), DefaultOdds)

----------------------------------------------------------------------------
(* Order of installs, memory and disk, failed runs *)

\* run q has installed its snapshot
HasInstalled(q) == runs[q].pc = "writing" \/ runs[q].installed

\* C18: snapshots are installed in the order in which their runs started: when
\* a run installs, no run that started after it has installed already.  Runs
\* are numbered in the order of their start.
C18_InstallsInStartOrder ==
    [][\A r \in Runs :
          (runs[r].pc = "fetching" /\ runs'[r].pc = "writing")
              => \A q \in Runs : q > r => ~HasInstalled(q)]_vars

\* no run is in progress
Quiescent ==
    /\ startup = "listening"
    /\ \A r \in Runs : runs[r].pc \in {"none", "done"}

\* a run has ended in the catch block after its install: its write failed
SomeWriteFailed == \E r \in Runs : runs[r].threw /\ runs[r].installed

\* the cache file holds what a write of the snapshot in memory puts there
DiskAgrees ==
    /\ cacheFile.kind = "json"
    /\ Parsed(cacheFile) = IF IsSnapshot(lotteryData) THEN ToJson(lotteryData)
                           ELSE lotteryData

\* C19: whenever the server is up, no run is in progress, a run has installed
\* a snapshot and no write of the cache file has failed, the cache file holds
\* the snapshot that is in memory.
C19_DiskAgreesAtQuiescence ==
    (Quiescent /\ ~SomeWriteFailed /\ \E r \in Runs : runs[r].installed) => DiskAgrees

\* C20: a run that raises before it has installed leaves the snapshot in
\* memory and the cache file as they were, and returns normally: the refresh
\* that started it is answered with success, the startup goes on to listen.
C20_FailedRunChangesNothing ==
    [][\A r \in Runs :
          (runs[r].pc = "fetching" /\ runs'[r].pc = "done") =>
             /\ lotteryData' = lotteryData
             /\ cacheFile' = cacheFile
             /\ runs[r].trigger = "refresh" => resp'.kind = "refresh" /\ resp'.success
             /\ runs[r].trigger = "startup" => startup' = "listening"]_vars

\* the run of a refresh has raised in its merge, and the refresh was answered
C20_Witness ==
    /\ resp.kind = "refresh"
    /\ resp.success
    /\ runs[resp.run].pc = "done"
    /\ runs[resp.run].threw
    /\ ~runs[resp.run].installed

====
